---- MODULE Spec2Model ----
(***************************************************************************)
(* Planetary aspect detection, refinement and deduplication                *)
(* (hashashino/major).                                                     *)
(*                                                                         *)
(* Angles are integers in units of 0.0001 degree (AngleScale units per     *)
(* degree), instants are integers in hours for the grid scanners and in    *)
(* solver ticks for find_exact_aspect_time.                                *)
(***************************************************************************)
EXTENDS Integers, Sequences, FiniteSets, TLC

\* ---------------------------------------------------------------- units
AngleScale == 10000
Circle == 360 * AngleScale
HalfCircle == 180 * AngleScale
HoursPerDay == 24

\* ---------------------------------------------------------------- bounds
\* last instant (hours) a find_exact_aspect_dates scan may be asked to cover
MaxScanHours == 2160

\* longest interval (ticks) a Swiss Ephemeris scanner may be asked to cover
MaxScanTicks == 64

\* number of equidistant angles the pure functions are called with
MathGrid == 24

\* longest event list the duplicate filters are called with
MaxEvents == 3

\* highest price the pattern classes are asked about
MaxPrice == 99999

Abs(x) == IF x < 0 THEN -x ELSE x

Min2(a, b) == IF a < b THEN a ELSE b

\* ------------------------------------------------- AspectCalculator config
\* self.aspects, in dict (declaration) order
AspectNames ==
  <<"Conjunction", "Semisquare", "Sextile", "Square", "Trine", "Gann109",
    "Opposition", "Gann74">>

AspectAngle(name) ==
  CASE name = "Conjunction" -> 0
    [] name = "Semisquare" -> 45 * AngleScale
    [] name = "Sextile" -> 60 * AngleScale
    [] name = "Square" -> 90 * AngleScale
    [] name = "Trine" -> 120 * AngleScale
    [] name = "Gann109" -> 109 * AngleScale
    [] name = "Opposition" -> 180 * AngleScale
    [] name = "Gann74" -> 74 * AngleScale

\* self.orb = 1.0
CalculatorOrb == 1 * AngleScale

\* self.min_days_between_aspects = 14
min_days_between_aspects == 14

\* "elif current_date - window['last_seen'] > 30"
WindowDays == 30

\* "if current_angle_diff < last_angle_diff - 0.1"
MoreExactMargin == AngleScale \div 10

luminaries == <<"Sun", "Moon">>
fast_planets == <<"Mercury", "Venus", "Mars">>
slow_planets == <<"Jupiter", "Saturn", "Uranus", "Neptune", "Pluto">>

\* rank of a planet name in Python's string order, for sorted([p1, p2])
NameRank(p) ==
  CASE p = "Jupiter" -> 1 [] p = "Mars" -> 2 [] p = "Mercury" -> 3
    [] p = "Moon" -> 4 [] p = "Neptune" -> 5 [] p = "Pluto" -> 6
    [] p = "Saturn" -> 7 [] p = "Sun" -> 8 [] p = "Uranus" -> 9
    [] p = "Venus" -> 10

\* _update_active_planets: the keys of self.planets in insertion order
ActivePlanets(toggles) ==
  (IF toggles.use_luminaries THEN luminaries ELSE <<>>)
    \o (IF toggles.use_fast_planets THEN fast_planets ELSE <<>>)
    \o (IF toggles.use_slow_planets THEN slow_planets ELSE <<>>)

\* ------------------------------------------------------------- AngleMath
\* calculate_angle_between_planets: <<short_arc, long_arc>>
calculate_angle_between_planets(planet1_lon, planet2_lon) ==
  LET diff == Abs(planet1_lon - planet2_lon)
  IN  <<IF diff <= HalfCircle THEN diff ELSE Circle - diff,
        IF diff > HalfCircle THEN diff ELSE Circle - diff>>

\* ---------------------------------------------------------- AspectMatcher
\* self.aspects as __init__ builds it: (name, angle) items in dict order
DefaultAspects ==
  [i \in 1..Len(AspectNames) |->
     [name |-> AspectNames[i], angle |-> AspectAngle(AspectNames[i])]]

\* the test of one item of self.aspects.items()
AspectTestPasses(aspect, short_arc, long_arc) ==
  IF aspect.name = "Gann74"
    THEN Abs(long_arc - (Circle - aspect.angle)) <= CalculatorOrb
    ELSE Abs(short_arc - aspect.angle) <= CalculatorOrb

\* "for aspect_name, aspect_angle in self.aspects.items()", from item i on
RECURSIVE FirstMatchFrom(_, _, _, _)
FirstMatchFrom(aspects, i, short_arc, long_arc) ==
  IF i > Len(aspects) THEN ""
  ELSE IF AspectTestPasses(aspects[i], short_arc, long_arc)
         THEN aspects[i].name
         ELSE FirstMatchFrom(aspects, i + 1, short_arc, long_arc)

get_aspect_type_LastMatch(aspects, short_arc, long_arc) ==
  IF \A i \in 1..Len(aspects) :
       ~AspectTestPasses(aspects[i], short_arc, long_arc)
    THEN ""
    ELSE aspects[CHOOSE i \in 1..Len(aspects) :
                   /\ AspectTestPasses(aspects[i], short_arc, long_arc)
                   /\ \A j \in (i + 1)..Len(aspects) :
                        ~AspectTestPasses(aspects[j], short_arc, long_arc)].name

get_aspect_type_NeverEmpty(aspects, short_arc, long_arc) ==
  IF FirstMatchFrom(aspects, 1, short_arc, long_arc) = ""
    THEN "Conjunction"
    ELSE FirstMatchFrom(aspects, 1, short_arc, long_arc)

get_aspect_type(aspects, short_arc, long_arc) ==
  FirstMatchFrom(aspects, 1, short_arc, long_arc)

\* the aspects found for planet_names[i] against planet_names[j..]
RECURSIVE PairAspects(_, _, _, _, _, _)
PairAspects(date, positions, planet_names, aspects, i, j) ==
  IF i > Len(planet_names) THEN <<>>
  ELSE IF j > Len(planet_names)
    THEN PairAspects(date, positions, planet_names, aspects, i + 1, i + 2)
    ELSE
      LET planet1 == planet_names[i]
          planet2 == planet_names[j]
          arcs == calculate_angle_between_planets(positions[planet1],
                                                  positions[planet2])
          aspect_type == get_aspect_type(aspects, arcs[1], arcs[2])
          found ==
            IF aspect_type = "" THEN <<>>
            ELSE <<[date |-> date, planet1 |-> planet1, planet2 |-> planet2,
                    aspect |-> aspect_type,
                    angle |-> IF aspect_type = "Gann74" THEN arcs[2]
                              ELSE arcs[1],
                    planet1_lon |-> positions[planet1],
                    planet2_lon |-> positions[planet2]]>>
      IN  found \o PairAspects(date, positions, planet_names, aspects, i,
                                j + 1)

find_aspects_for_date_ShiftedInstant(date, positions, planet_names, aspects) ==
  PairAspects(date + HoursPerDay \div 2, positions, planet_names, aspects,
              1, 2)

find_aspects_for_date(date, positions, planet_names, aspects) ==
  PairAspects(date, positions, planet_names, aspects, 1, 2)

\* ----------------------------------------------------- DeduplicationWindow
\* planet_pair = tuple(sorted([planet1, planet2])); aspect_key
AspectKey(aspect) ==
  <<IF NameRank(aspect.planet1) <= NameRank(aspect.planet2)
      THEN <<aspect.planet1, aspect.planet2>>
      ELSE <<aspect.planet2, aspect.planet1>>,
    aspect.aspect>>

\* angle_precision = abs(aspect['angle'] - self.aspects[aspect['aspect']])
AnglePrecision(aspect) == Abs(aspect.angle - AspectAngle(aspect.aspect))

\* index of the window of a key in the insertion-ordered dict, 0 if absent
WindowIndex(windows, key) ==
  IF \E i \in 1..Len(windows) : windows[i].key = key
    THEN CHOOSE i \in 1..Len(windows) : windows[i].key = key
    ELSE 0

NewWindow(aspect, current_date) ==
  [key |-> AspectKey(aspect), best_precision |-> AnglePrecision(aspect),
   best_aspect |-> aspect, last_seen |-> current_date]

MorePrecise_OrAsPrecise(angle_precision, window) ==
  angle_precision <= window.best_precision

MorePrecise_KeepsLeastPrecise(angle_precision, window) ==
  angle_precision > window.best_precision

\* does the candidate replace the best of its open window ?
MorePrecise(angle_precision, window) ==
  angle_precision < window.best_precision

WindowEnded_AtNextCandidate(current_date, window) ==
  current_date - window.last_seen > 0

\* has the window of this key ended ?
WindowEnded(current_date, window) ==
  current_date - window.last_seen > WindowDays * HoursPerDay

\* body of "for aspect in aspects": state is [windows, exact]
TrackAspect(st, aspect, current_date) ==
  LET i == WindowIndex(st.windows, AspectKey(aspect))
  IN  IF i = 0
        THEN [st EXCEPT !.windows = Append(@, NewWindow(aspect, current_date))]
      ELSE IF MorePrecise(AnglePrecision(aspect), st.windows[i])
        THEN [st EXCEPT !.windows[i] = NewWindow(aspect, current_date)]
      ELSE IF WindowEnded(current_date, st.windows[i])
        THEN [windows |-> [st.windows EXCEPT
                             ![i] = NewWindow(aspect, current_date)],
              exact |-> Append(st.exact, st.windows[i].best_aspect)]
      ELSE st

RECURSIVE TrackAll(_, _, _)
TrackAll(st, aspects, current_date) ==
  IF aspects = <<>> THEN st
  ELSE TrackAll(TrackAspect(st, Head(aspects), current_date), Tail(aspects),
                current_date)

FlushWindows_OnlyLastWindow(exact, windows) ==
  IF windows = <<>> THEN exact
  ELSE Append(exact, windows[Len(windows)].best_aspect)

\* "for window in aspect_windows.values(): exact_aspects.append(best)"
RECURSIVE FlushWindows(_, _)
FlushWindows(exact, windows) ==
  IF windows = <<>> THEN exact
  ELSE FlushWindows(Append(exact, Head(windows).best_aspect), Tail(windows))

\* ------------------------------------------------- deduplicate_aspects
\* sorted(aspects, key=lambda x: x['date']) : stable
RECURSIVE InsertByDate(_, _)
InsertByDate(sorted, a) ==
  IF sorted = <<>> THEN <<a>>
  ELSE IF Head(sorted).date <= a.date
    THEN <<Head(sorted)>> \o InsertByDate(Tail(sorted), a)
    ELSE <<a>> \o sorted

RECURSIVE SortByDate(_)
SortByDate(aspects) ==
  IF aspects = <<>> THEN <<>>
  ELSE InsertByDate(SortByDate(SubSeq(aspects, 1, Len(aspects) - 1)),
                    aspects[Len(aspects)])

RemoveLessExact_KeepsAll(deduplicated, key, last_date) == deduplicated

\* drop the previous, less exact entry of the key (within a day of last_date)
RECURSIVE RemoveLessExact(_, _, _)
RemoveLessExact(deduplicated, key, last_date) ==
  IF deduplicated = <<>> THEN <<>>
  ELSE LET a == Head(deduplicated)
           rest == RemoveLessExact(Tail(deduplicated), key, last_date)
       IN  IF AspectKey(a) = key /\ Abs(a.date - last_date) < HoursPerDay
             THEN rest ELSE <<a>> \o rest

\* body of "for aspect in sorted_aspects": state is [dedup, tracking]
DedupOne(st, aspect) ==
  LET key == AspectKey(aspect)
      tracked == key \in DOMAIN st.tracking
      last == st.tracking[key]
      too_recent ==
        tracked /\ aspect.date - last.date
                     < min_days_between_aspects * HoursPerDay
      more_exact ==
        too_recent /\
        Abs(aspect.angle - AspectAngle(aspect.aspect))
          < Abs(last.angle - AspectAngle(aspect.aspect)) - MoreExactMargin
      should_include == ~too_recent \/ more_exact
      kept == IF more_exact
                THEN RemoveLessExact(st.dedup, key, last.date)
                ELSE st.dedup
  IN  IF should_include
        THEN [dedup |-> Append(kept, aspect),
              tracking |->
                [k \in DOMAIN st.tracking \cup {key} |->
                   IF k = key THEN [date |-> aspect.date,
                                    angle |-> aspect.angle]
                   ELSE st.tracking[k]]]
        ELSE [st EXCEPT !.dedup = kept]

RECURSIVE DedupLoop(_, _)
DedupLoop(st, aspects) ==
  IF aspects = <<>> THEN st
  ELSE DedupLoop(DedupOne(st, Head(aspects)), Tail(aspects))

SortedAspects_Unsorted(aspects) == aspects

\* sorted_aspects
SortedAspects(aspects) == SortByDate(aspects)

deduplicate_aspects(aspects) ==
  IF aspects = <<>> THEN aspects
  ELSE DedupLoop([dedup |-> <<>>, tracking |-> <<>>],
                 SortedAspects(aspects)).dedup


\* ------------------------------------------------ find_exact_aspect_dates
VARIABLES
  dates_pc,        \* "idle" | "scan" (in the while loop) | "done" (returned)
  toggles,         \* use_luminaries / use_fast_planets / use_slow_planets
  planets,         \* the keys of self.planets, in insertion order
  aspects,         \* the items of self.aspects, in insertion order
  end,             \* ephem.Date(end_date), hours (start is hour 0)
  step,            \* precision_hours
  current_date,    \* loop variable
  aspect_windows,  \* insertion-ordered dict aspect_key -> window
  exact_aspects,   \* events committed by window close or flush
  returned,        \* return value: deduplicate_aspects(exact_aspects)
  candidates       \* history: every aspect the scan fed to the window stage

dates_vars ==
  <<dates_pc, toggles, planets, aspects, end, step, current_date,
    aspect_windows, exact_aspects, returned, candidates>>

\* planet groups a scan is configured with (set_planet_groups)
ToggleChoices ==
  {[use_luminaries |-> TRUE, use_fast_planets |-> FALSE,
    use_slow_planets |-> FALSE],
   [use_luminaries |-> FALSE, use_fast_planets |-> TRUE,
    use_slow_planets |-> FALSE],
   [use_luminaries |-> FALSE, use_fast_planets |-> FALSE,
    use_slow_planets |-> FALSE]}

\* precision_hours a scan is called with
PrecisionHoursChoices == {360, 480}

\* longitudes the position provider may report for a planet
LonChoices(p) ==
  CASE p = "Sun" -> {0}
    [] p = "Moon" -> {3000, 6000, 902000, 2000000, 2855000, 2864000}
    [] p = "Mercury" -> {100000}
    [] p = "Venus" -> {104000, 1005000}
    [] p = "Mars" -> {102000, 1500000}
    [] OTHER -> {0}

SeqRange(s) == {s[i] : i \in 1..Len(s)}

\* calculate_planetary_positions: one longitude per active planet
PositionChoices(planet_names) ==
  {f \in [SeqRange(planet_names) ->
            UNION {LonChoices(p) : p \in SeqRange(planet_names)}] :
     \A p \in SeqRange(planet_names) : f[p] \in LonChoices(p)}

\* "while current_date <= end"
ScanContinues(current, end_) == current <= end_

\* self.planets of a calculator: what _update_active_planets builds from
\* the toggles, or a dict of one planet
PlanetsChoices(t) ==
  {ActivePlanets(t)}
    \cup (IF t.use_luminaries THEN {<<"Sun">>, <<"Moon">>} ELSE {})

\* self.aspects of a calculator: the catalog of __init__, or an empty dict
AspectsChoices == {DefaultAspects, <<>>}

DatesInit ==
  /\ dates_pc = "scan"
  /\ toggles \in ToggleChoices
  /\ planets \in PlanetsChoices(toggles)
  /\ aspects \in AspectsChoices
  /\ end \in {0, MaxScanHours}
  /\ step \in PrecisionHoursChoices
  /\ current_date = 0
  /\ aspect_windows = <<>>
  /\ exact_aspects = <<>>
  /\ returned = <<>>
  /\ candidates = <<>>

\* one iteration of the while loop
ScanStep ==
  /\ dates_pc = "scan"
  /\ ScanContinues(current_date, end)
  /\ \E positions \in PositionChoices(planets) :
       LET found == find_aspects_for_date(current_date, positions, planets,
                                          aspects)
           st == TrackAll([windows |-> aspect_windows,
                           exact |-> exact_aspects], found, current_date)
       IN  /\ aspect_windows' = st.windows
           /\ exact_aspects' = st.exact
           /\ candidates' = candidates \o found
  /\ current_date' = current_date + step
  /\ UNCHANGED <<dates_pc, toggles, planets, aspects, end, step, returned>>

\* loop exit: flush of the open windows, final deduplication, return
FinishScan ==
  /\ dates_pc = "scan"
  /\ ~ScanContinues(current_date, end)
  /\ exact_aspects' = FlushWindows(exact_aspects, aspect_windows)
  /\ returned' = deduplicate_aspects(exact_aspects')
  /\ dates_pc' = "done"
  /\ UNCHANGED <<toggles, planets, aspects, end, step, current_date,
                 aspect_windows, candidates>>

\* ------------------------------------------------- position provider
\* the planets dict of the Swiss Ephemeris scanners, in declaration order
all_planets ==
  <<"Sun", "Moon", "Mercury", "Venus", "Mars", "Jupiter", "Saturn", "Uranus",
    "Neptune", "Pluto">>

\* solver instants are ticks of 1/16 day
TicksPerDay == 16

\* calculate_position returns None when swe.calc_ut fails
None == -1

\* float('inf')
Infinity == 100 * Circle

\* never reached by a scan: the provider covers every instant
NoOutage == 1000000

\* An ephemeris: the planets it covers and, for each, the longitude at tick
\* 0, the motion per tick and the last tick covered (swe.calc_ut fails for
\* a planet that is not covered and for an instant beyond the range).
calculate_position(eph, planet, jd) ==
  IF planet \notin eph.covered \/ jd > eph.available_until[planet]
    THEN None
    ELSE (eph.lon0[planet] + eph.rate[planet] * jd) % Circle

NoEphemeris ==
  [covered |-> {}, lon0 |-> <<>>, rate |-> <<>>, available_until |-> <<>>]

angular_distance_NoWrap(lon1, lon2) == Abs(lon1 - lon2)

\* angular_distance(lon1, lon2)
angular_distance(lon1, lon2) ==
  LET diff == Abs(lon1 - lon2)
  IN  IF diff > HalfCircle THEN Circle - diff ELSE diff

\* ------------------------------------------------ find_exact_aspect_time
\* "for iteration in range(100)"
MaxIterations == 100

\* "if mid_diff < 0.0001"
SolverTolerance == AngleScale \div 10000

\* the error of a measured separation against the target
AngleError(current_angle, target_angle) ==
  IF target_angle = HalfCircle THEN Abs(current_angle - HalfCircle)
  ELSE Min2(Abs(current_angle - target_angle),
            Min2(Abs(current_angle - (target_angle + Circle)),
                 Abs((current_angle + Circle) - target_angle)))

ErrorOfPositions(pos1, pos2, target_angle) ==
  IF pos1 = None \/ pos2 = None THEN Infinity
  ELSE AngleError(angular_distance(pos1, pos2), target_angle)

angle_difference_from_target(eph, planet1, planet2, target_angle, jd) ==
  ErrorOfPositions(calculate_position(eph, planet1, jd),
                   calculate_position(eph, planet2, jd), target_angle)

Midpoint_NotHalved(left, right) == left + right

\* mid_jd = (left_jd + right_jd) / 2, on the grid of representable instants
Midpoint(left, right) == (left + right) \div 2

\* "if mid_diff < 0.0001: return mid_jd"
Converged(mid_diff) == mid_diff < SolverTolerance

NarrowsRight_OrEqual(left_diff, right_diff) == left_diff <= right_diff

\* "if left_diff < right_diff: right_jd = mid_jd else: left_jd = mid_jd"
NarrowsRight(left_diff, right_diff) == left_diff < right_diff

\* the decision of one pass of the for loop on the interval iv
BisectDecide(iv, mid_jd, left_diff, mid_diff, right_diff) ==
  IF Converged(mid_diff)
    THEN [done |-> TRUE, instant |-> mid_jd, left |-> iv.left,
          right |-> iv.right]
  ELSE IF NarrowsRight(left_diff, right_diff)
    THEN [done |-> FALSE, instant |-> None, left |-> iv.left,
          right |-> mid_jd]
    ELSE [done |-> FALSE, instant |-> None, left |-> mid_jd,
          right |-> iv.right]

\* one pass of the for loop on the interval iv = [left, right]: either the
\* early return (done, with the instant) or the narrowed interval
BisectOnce(eph, planet1, planet2, target_angle, iv) ==
  BisectDecide(iv, Midpoint(iv.left, iv.right),
    angle_difference_from_target(eph, planet1, planet2, target_angle,
                                 iv.left),
    angle_difference_from_target(eph, planet1, planet2, target_angle,
                                 Midpoint(iv.left, iv.right)),
    angle_difference_from_target(eph, planet1, planet2, target_angle,
                                 iv.right))

\* the whole call, as the scanners use it (a pass that leaves the interval
\* as it was is repeated unchanged by every later pass, up to the cap)
RECURSIVE BisectFrom(_, _, _, _, _, _)
RECURSIVE BisectAfter(_, _, _, _, _, _, _)
BisectAfter(eph, planet1, planet2, target_angle, iv, iteration, nx) ==
  IF nx.done THEN nx.instant
  ELSE IF nx.left = iv.left /\ nx.right = iv.right
    THEN Midpoint(iv.left, iv.right)
  ELSE BisectFrom(eph, planet1, planet2, target_angle,
                  [left |-> nx.left, right |-> nx.right], iteration + 1)

BisectFrom(eph, planet1, planet2, target_angle, iv, iteration) ==
  IF iteration >= MaxIterations THEN Midpoint(iv.left, iv.right)
  ELSE BisectAfter(eph, planet1, planet2, target_angle, iv, iteration,
                   BisectOnce(eph, planet1, planet2, target_angle, iv))

find_exact_aspect_time(eph, planet1, planet2, target, start, days) ==
  BisectFrom(eph, planet1, planet2, target,
             [left |-> start, right |-> start + days], 0)

VARIABLES
  solver_pc,      \* "idle" | "search" (in the for loop) | "returned"
  ephemeris,      \* what the position provider answers
  planet1_code,
  planet2_code,
  target_angle,
  search_start,   \* start_jd
  search_days,    \* in ticks
  left_jd,
  right_jd,
  iteration,
  mids,           \* history: the midpoints evaluated so far
  probes,         \* history: the instants the error was evaluated at
  solver_result   \* the returned instant

solver_vars ==
  <<solver_pc, ephemeris, planet1_code, planet2_code, target_angle,
    search_start, search_days, left_jd, right_jd, iteration, mids, probes,
    solver_result>>

\* ephemerides of a solver call: planet1 at rest at 0 degrees, planet2 in
\* linear motion of 13 degrees a day, covered up to some tick
SolverLon0Choices == {3559375, 3502500, 3270000, 1743125}

SolverRateChoices == {8125}

AvailableUntilChoices == {None, 14, NoOutage}

SolverEphemerides ==
  {[covered |-> {"Sun", "Moon"},
    lon0 |-> [p \in {"Sun", "Moon"} |-> IF p = "Sun" THEN 0 ELSE l],
    rate |-> [p \in {"Sun", "Moon"} |-> IF p = "Sun" THEN 0 ELSE r],
    available_until |-> [p \in {"Sun", "Moon"} |-> u]] :
     l \in SolverLon0Choices, r \in SolverRateChoices,
     u \in AvailableUntilChoices}

SolverTargetChoices == {0, 45 * AngleScale, 180 * AngleScale}

\* search_days: one day (as scan_for_aspects calls it) or eight
SearchDaysChoices == {1 * TicksPerDay, 8 * TicksPerDay}

DatesIdle ==
  /\ dates_pc = "idle"
  /\ toggles = [use_luminaries |-> FALSE, use_fast_planets |-> FALSE,
                use_slow_planets |-> FALSE]
  /\ planets = <<>>
  /\ aspects = <<>>
  /\ end = 0
  /\ step = 0
  /\ current_date = 0
  /\ aspect_windows = <<>>
  /\ exact_aspects = <<>>
  /\ returned = <<>>
  /\ candidates = <<>>

SolverIdle ==
  /\ solver_pc = "idle"
  /\ ephemeris = NoEphemeris
  /\ planet1_code = "Sun"
  /\ planet2_code = "Moon"
  /\ target_angle = 0
  /\ search_start = 0
  /\ search_days = 0
  /\ left_jd = 0
  /\ right_jd = 0
  /\ iteration = 0
  /\ mids = <<>>
  /\ probes = <<>>
  /\ solver_result = None

\* entry of find_exact_aspect_time: left_jd, right_jd set, loop not started
SolverInit ==
  /\ solver_pc = "search"
  /\ ephemeris \in SolverEphemerides
  /\ planet1_code = "Sun"
  /\ planet2_code = "Moon"
  /\ target_angle \in SolverTargetChoices
  /\ search_start = 0
  /\ search_days \in SearchDaysChoices
  /\ left_jd = search_start
  /\ right_jd = search_start + search_days
  /\ iteration = 0
  /\ mids = <<>>
  /\ probes = <<>>
  /\ solver_result = None

\* one pass of the for loop
SolverIterate ==
  /\ solver_pc = "search"
  /\ iteration < MaxIterations
  /\ LET nx == BisectOnce(ephemeris, planet1_code, planet2_code,
                          target_angle,
                          [left |-> left_jd, right |-> right_jd])
     IN  /\ mids' = Append(mids, Midpoint(left_jd, right_jd))
         /\ probes' = probes \o <<left_jd, Midpoint(left_jd, right_jd),
                                   right_jd>>
         /\ left_jd' = nx.left
         /\ right_jd' = nx.right
         /\ iteration' = IF nx.done THEN iteration ELSE iteration + 1
         /\ solver_pc' = IF nx.done THEN "returned" ELSE "search"
         /\ solver_result' = nx.instant
  /\ UNCHANGED <<ephemeris, planet1_code, planet2_code, target_angle,
                 search_start, search_days>>

SolverExhausted_KeepsSearching ==
  /\ solver_pc = "search"
  /\ iteration >= MaxIterations
  /\ UNCHANGED solver_vars

\* the loop ran out: "return (left_jd + right_jd) / 2"
SolverExhausted ==
  /\ solver_pc = "search"
  /\ iteration >= MaxIterations
  /\ solver_result' = Midpoint(left_jd, right_jd)
  /\ solver_pc' = "returned"
  /\ UNCHANGED <<ephemeris, planet1_code, planet2_code, target_angle,
                 search_start, search_days, left_jd, right_jd, iteration,
                 mids, probes>>

\* scan_for_aspects: "if angle_error <= 0.01"
PostCheckTolerance == AngleScale \div 100

\* ---------------------------------------- the Swiss Ephemeris scanners
\* scan_for_aspects (calculate_aspects.py) and
\* scan_planetary_aspects_for_symbol (MultiSymbolAspectsCalculator.py)

\* the module-level aspects dict of calculate_aspects.py, in order
ScanCatalog ==
  <<[name |-> "Conjunction", angle |-> 0, orb |-> AngleScale \div 2],
    [name |-> "Semisquare", angle |-> 45 * AngleScale,
     orb |-> AngleScale \div 2],
    [name |-> "Sextile", angle |-> 60 * AngleScale, orb |-> AngleScale],
    [name |-> "Square", angle |-> 90 * AngleScale, orb |-> AngleScale],
    [name |-> "Trine", angle |-> 120 * AngleScale, orb |-> AngleScale],
    [name |-> "Gann109", angle |-> 109 * AngleScale,
     orb |-> AngleScale \div 2],
    [name |-> "Opposition", angle |-> 180 * AngleScale, orb |-> AngleScale],
    [name |-> "Gann74", angle |-> 74 * AngleScale,
     orb |-> AngleScale \div 2]>>

\* self.base_aspects of MultiSymbolAspectCalculator, in order
base_aspects ==
  <<[name |-> "Conjunction", angle |-> 0, orb |-> AngleScale \div 2],
    [name |-> "Semisquare", angle |-> 45 * AngleScale,
     orb |-> AngleScale \div 2],
    [name |-> "Sextile", angle |-> 60 * AngleScale, orb |-> AngleScale],
    [name |-> "Square", angle |-> 90 * AngleScale, orb |-> AngleScale],
    [name |-> "Trine", angle |-> 120 * AngleScale, orb |-> AngleScale],
    [name |-> "Opposition", angle |-> 180 * AngleScale, orb |-> AngleScale]>>

\* get_symbol_aspects: the base aspects and the two price-derived angles
get_symbol_aspects(high_degrees, low_degrees) ==
  base_aspects \o
    <<[name |-> "GannHigh", angle |-> high_degrees,
       orb |-> AngleScale \div 2],
      [name |-> "GannLow", angle |-> low_degrees,
       orb |-> AngleScale \div 2]>>

is_aspect_within_orb_NoSeam(angle, target, orb) == Abs(angle - target) <= orb

\* is_aspect_within_orb(angle, target_angle, orb)
is_aspect_within_orb(angle, target, orb) ==
  LET diff == Abs(angle - target)
  IN  (IF diff > HalfCircle THEN Circle - diff ELSE diff) <= orb

\* planet_pairs: every (planet1, planet2) with i < j, in loop order
RECURSIVE PairsFrom(_, _, _)
PairsFrom(names, i, j) ==
  IF i > Len(names) THEN <<>>
  ELSE IF j > Len(names) THEN PairsFrom(names, i + 1, i + 2)
  ELSE <<<<names[i], names[j]>>>> \o PairsFrom(names, i, j + 1)

planet_pairs == PairsFrom(all_planets, 1, 2)

\* calculate_aspects.py binds the name datetime to the module ("import
\* datetime"), so the call datetime(*current_date[:6]) is not a call of the
\* class
DatetimeIsCallable == FALSE

\* step_hours / 24.0, in ticks
StepTicks(step_hours) == (step_hours * TicksPerDay) \div HoursPerDay

\* scan_for_aspects: angle_error of the post-check
PostCheckError(exact_angle, target) ==
  IF target = HalfCircle THEN Abs(exact_angle - HalfCircle)
  ELSE IF target = 0 THEN Min2(exact_angle, Circle - exact_angle)
  ELSE Abs(exact_angle - target)

\* scan_for_aspects: "if angle_error <= 0.01": aspect_data, appended
PostCheck(planet1, planet2, aspect, exact_jd, pos1, pos2, angle, error) ==
  IF error <= PostCheckTolerance
    THEN [error |-> "",
          events |-> <<[planet1 |-> planet1, planet2 |-> planet2,
                        aspect |-> aspect.name, angle |-> angle,
                        planet1_lon |-> pos1, planet2_lon |-> pos2,
                        exact_jd |-> exact_jd, angle_error |-> error]>>]
    ELSE [error |-> "", events |-> <<>>]

\* scan_for_aspects: "if exact_jd:" and the measure at the exact instant;
\* the result is the event appended (none when the post-check rejects it)
\* or the exception raised
MeasureExact(planet1, planet2, aspect, exact_jd, pos1, pos2) ==
  IF exact_jd = None \/ exact_jd = 0 THEN [error |-> "", events |-> <<>>]
  ELSE IF ~DatetimeIsCallable \/ pos1 = None \/ pos2 = None
    THEN [error |-> "TypeError", events |-> <<>>]
  ELSE PostCheck(planet1, planet2, aspect, exact_jd, pos1, pos2,
                 angular_distance(pos1, pos2),
                 PostCheckError(angular_distance(pos1, pos2), aspect.angle))

RefineAt(eph, planet1, planet2, aspect, exact_jd) ==
  MeasureExact(planet1, planet2, aspect, exact_jd,
               calculate_position(eph, planet1, exact_jd),
               calculate_position(eph, planet2, exact_jd))

RefineAndCheck(eph, planet1, planet2, aspect, jd) ==
  RefineAt(eph, planet1, planet2, aspect,
           find_exact_aspect_time(eph, planet1, planet2, aspect.angle,
                                  jd - TicksPerDay \div 2, TicksPerDay))

\* scan_for_aspects: the loop over the catalog (index a) for the pair i at
\* one scan instant; st is [error, found]
RECURSIVE ScanAspects(_, _, _, _, _, _, _)
ScanHit(st, r) == [error |-> r.error, found |-> st.found \o r.events]

ScanAspects(eph, jd, st, i, a, pos1, pos2) ==
  IF st.error # "" \/ a > Len(ScanCatalog) THEN st
  ELSE IF is_aspect_within_orb(angular_distance(pos1, pos2),
                               ScanCatalog[a].angle, ScanCatalog[a].orb)
    THEN ScanAspects(eph, jd,
           ScanHit(st, RefineAndCheck(eph, planet_pairs[i][1],
                                      planet_pairs[i][2], ScanCatalog[a], jd)),
           i, a + 1, pos1, pos2)
  ELSE ScanAspects(eph, jd, st, i, a + 1, pos1, pos2)

\* "if pos1 is None or pos2 is None: continue"
ScanPair(eph, jd, st, i, pos1, pos2) ==
  IF pos1 = None \/ pos2 = None THEN st
  ELSE ScanAspects(eph, jd, st, i, 1, pos1, pos2)

\* scan_for_aspects: the loop over planet_pairs (index i) at one instant
RECURSIVE ScanPairs(_, _, _, _)
ScanPairs(eph, jd, st, i) ==
  IF st.error # "" \/ i > Len(planet_pairs) THEN st
  ELSE ScanPairs(eph, jd,
         ScanPair(eph, jd, st, i,
                  calculate_position(eph, planet_pairs[i][1], jd),
                  calculate_position(eph, planet_pairs[i][2], jd)),
         i + 1)

\* scan_planetary_aspects_for_symbol: is the hit added ?
ShouldAdd(last, aspect_key, jd) ==
  ~(aspect_key \in DOMAIN last /\ jd - last[aspect_key] < TicksPerDay)

\* scan_planetary_aspects_for_symbol: angle_diff of a pair against a target
SymbolAngleDiff(pos1, pos2, target) ==
  IF Abs(angular_distance(pos1, pos2) - target) > HalfCircle
    THEN Circle - Abs(angular_distance(pos1, pos2) - target)
    ELSE Abs(angular_distance(pos1, pos2) - target)

\* aspect_key = (planet1, planet2, aspect_name)
SymbolKey(i, aspect) == <<planet_pairs[i][1], planet_pairs[i][2], aspect.name>>

\* is the aspect of the pair i added at this instant ? Each key is visited
\* once per instant, so last is last_aspects as the instant found it.
SymbolCheck(aspect, last, jd, i, pos1, pos2) ==
  /\ pos1 # None
  /\ pos2 # None
  /\ SymbolAngleDiff(pos1, pos2, aspect.angle) <= aspect.orb
  /\ ShouldAdd(last, SymbolKey(i, aspect), jd)

\* aspect_data
SymbolAspectData(aspect, jd, i, pos1, pos2) ==
  [planet1 |-> planet_pairs[i][1], planet2 |-> planet_pairs[i][2],
   aspect |-> aspect.name, planet1_degrees |-> pos1,
   planet2_degrees |-> pos2,
   aspect_angle |-> angular_distance(pos1, pos2),
   target_angle |-> aspect.angle,
   angle_diff |-> SymbolAngleDiff(pos1, pos2, aspect.angle),
   exact_jd |-> jd]

\* the loops over planet_pairs and symbol_aspects at one scan instant, the
\* n-th pass being that of the pair PassPair(n) and the aspect PassAspect(n);
\* st is [found, last]
PassPair(catalog, n) == ((n - 1) \div Len(catalog)) + 1

PassAspect(catalog, n) == catalog[((n - 1) % Len(catalog)) + 1]

SymbolPasses(eph, catalog, last, jd) ==
  SelectSeq([n \in 1..(Len(planet_pairs) * Len(catalog)) |-> n],
            LAMBDA n :
              SymbolCheck(PassAspect(catalog, n), last, jd,
                PassPair(catalog, n),
                calculate_position(eph, planet_pairs[PassPair(catalog, n)][1],
                                   jd),
                calculate_position(eph, planet_pairs[PassPair(catalog, n)][2],
                                   jd)))

SymbolAdded(eph, catalog, jd, st, passes) ==
  [found |->
     st.found \o
       [k \in 1..Len(passes) |->
          SymbolAspectData(PassAspect(catalog, passes[k]), jd,
            PassPair(catalog, passes[k]),
            calculate_position(eph,
              planet_pairs[PassPair(catalog, passes[k])][1], jd),
            calculate_position(eph,
              planet_pairs[PassPair(catalog, passes[k])][2], jd))],
   last |->
     [key \in DOMAIN st.last
                \cup {SymbolKey(PassPair(catalog, passes[k]),
                                PassAspect(catalog, passes[k])) :
                        k \in 1..Len(passes)} |->
        IF \E k \in 1..Len(passes) :
             key = SymbolKey(PassPair(catalog, passes[k]),
                             PassAspect(catalog, passes[k]))
          THEN jd ELSE st.last[key]]]

SymbolPairs(eph, catalog, jd, st) ==
  SymbolAdded(eph, catalog, jd, st, SymbolPasses(eph, catalog, st.last, jd))

\* ------------------------------------------------- find_gann_aspects
\* (interactive_gann_aspect_calculator.py)

\* "orb: float = 0.5"
GannOrb == AngleScale \div 2

\* is_aspect_within_any(angle, target_angles, orb)
is_aspect_within_any(angle, target_angles, orb) ==
  \E n \in 1..Len(target_angles) :
    is_aspect_within_orb(angle, target_angles[n], orb)

\* the loop over planet_pairs (index i) at one scan instant; st is
\* [aborted, found]. The calculate_position of this file does not catch
\* what swe.calc_ut raises: the handler around the two calls returns [].
RECURSIVE GannPairs(_, _, _, _, _, _)
RECURSIVE GannPair(_, _, _, _, _, _, _, _)
GannPair(eph, raises, angles, jd, st, i, pos1, pos2) ==
  IF pos1 = None \/ pos2 = None
    THEN IF raises THEN [aborted |-> TRUE, found |-> <<>>]
         ELSE GannPairs(eph, raises, angles, jd, st, i + 1)
  ELSE IF is_aspect_within_any(angular_distance(pos1, pos2), angles, GannOrb)
    THEN GannPairs(eph, raises, angles, jd,
           [aborted |-> FALSE,
            found |-> Append(st.found,
                        [exact_jd |-> jd, planet1 |-> planet_pairs[i][1],
                         planet2 |-> planet_pairs[i][2],
                         angle |-> angular_distance(pos1, pos2)])],
           i + 1)
  ELSE GannPairs(eph, raises, angles, jd, st, i + 1)

GannPairs(eph, raises, angles, jd, st, i) ==
  IF st.aborted \/ i > Len(planet_pairs) THEN st
  ELSE GannPair(eph, raises, angles, jd, st, i,
                calculate_position(eph, planet_pairs[i][1], jd),
                calculate_position(eph, planet_pairs[i][2], jd))

VARIABLES
  scanner,         \* the entry point called
  calc_ut_raises,  \* swe.calc_ut fails by raising (else by an empty result)
  gann_angles,     \* the targets passed to find_gann_aspects
  scan_pc,         \* "idle" | "scan" (in the while loop) | "returned" | "raised"
  scan_error,      \* the exception that left the entry point
  scan_ephemeris,  \* what the position provider answers
  symbol_aspects,  \* the catalog passed to scan_planetary_aspects_for_symbol
  start_jd,
  end_jd,
  step_jd,
  current_jd,
  found_aspects,
  last_aspects     \* aspect_key -> instant of the last hit added

scan_vars ==
  <<scanner, calc_ut_raises, gann_angles, scan_pc, scan_error,
    scan_ephemeris, symbol_aspects, start_jd, end_jd, step_jd, current_jd,
    found_aspects, last_aspects>>

\* first instant of a scan (ticks since the epoch of the ephemeris)
ScanStart == 16

\* the tick at which the Moon of a scan ephemeris is conjunct the Sun
ConjunctionTick == 21

\* the tick at which Mercury, when covered, is square the Sun
SquareTick == 40

ScanRateChoices == {250, 1000}

ScanOutageChoices == {24, NoOutage}

ScanCoverChoices ==
  {{"Sun", "Moon"}, {"Sun", "Moon", "Mercury"}, SeqRange(all_planets)}

\* where a planet at rest stands: in no catalog aspect with any other
RestingLongitude(p) ==
  CASE p = "Venus" -> 21 * AngleScale [] p = "Mars" -> 23 * AngleScale
    [] p = "Jupiter" -> 25 * AngleScale [] p = "Saturn" -> 35 * AngleScale
    [] p = "Uranus" -> 37 * AngleScale [] p = "Neptune" -> 39 * AngleScale
    [] p = "Pluto" -> 172 * AngleScale [] OTHER -> 0

ScanEphemerides ==
  {[covered |-> c,
    lon0 |-> [p \in c |->
                CASE p = "Sun" -> 0
                  [] p = "Moon" -> Circle - ConjunctionTick * r
                  [] p = "Mercury" -> 90 * AngleScale - SquareTick * 250
                  [] OTHER -> RestingLongitude(p)],
    rate |-> [p \in c |->
                CASE p = "Sun" -> 0 [] p = "Moon" -> r [] p = "Mercury" -> 250
                  [] OTHER -> 0],
    available_until |-> [p \in c |-> IF p = "Moon" THEN u ELSE NoOutage]] :
     c \in ScanCoverChoices, r \in ScanRateChoices, u \in ScanOutageChoices}

StepHoursChoices == {3, 6, 24}

GannAnglesChoices == {<<0, 90 * AngleScale>>}

SymbolAspectsChoices ==
  {get_symbol_aspects(109 * AngleScale, 778 * (AngleScale \div 10))}

ScannersIdle ==
  /\ scanner = "none"
  /\ calc_ut_raises = FALSE
  /\ gann_angles = <<>>
  /\ scan_pc = "idle"
  /\ scan_error = ""
  /\ scan_ephemeris = NoEphemeris
  /\ symbol_aspects = <<>>
  /\ start_jd = 0
  /\ end_jd = 0
  /\ step_jd = 0
  /\ current_jd = 0
  /\ found_aspects = <<>>
  /\ last_aspects = <<>>

\* entry of a scanner, up to the while loop
ScannersInit ==
  /\ scanner \in {"scan_for_aspects", "scan_planetary_aspects_for_symbol",
                  "find_gann_aspects"}
  /\ calc_ut_raises \in BOOLEAN
  /\ gann_angles \in
       IF scanner = "find_gann_aspects" THEN GannAnglesChoices ELSE {<<>>}
  /\ scan_pc = "scan"
  /\ scan_error = ""
  /\ scan_ephemeris \in ScanEphemerides
  /\ symbol_aspects \in
       IF scanner = "scan_planetary_aspects_for_symbol"
         THEN SymbolAspectsChoices ELSE {<<>>}
  /\ start_jd = ScanStart
  /\ end_jd \in {ScanStart - TicksPerDay, ScanStart, ScanStart + MaxScanTicks}
  /\ step_jd \in {StepTicks(h) : h \in StepHoursChoices}
  /\ current_jd = start_jd
  /\ found_aspects = <<>>
  /\ last_aspects = <<>>

\* "progress = (current_jd - start_jd) / (end_jd - start_jd) * 100"
ProgressRaises == end_jd = start_jd

\* scan_for_aspects: one iteration of the while loop
ScanForAspectsStep ==
  /\ scanner = "scan_for_aspects"
  /\ scan_pc = "scan"
  /\ current_jd <= end_jd
  /\ LET st == IF ~DatetimeIsCallable
                 THEN [error |-> "TypeError", found |-> found_aspects]
                 ELSE ScanPairs(scan_ephemeris, current_jd,
                                [error |-> "", found |-> found_aspects], 1)
     IN  /\ found_aspects' = st.found
         /\ IF st.error # ""
              THEN /\ scan_pc' = "raised"
                   /\ scan_error' = st.error
                   /\ current_jd' = current_jd
              ELSE /\ current_jd' = current_jd + step_jd
                   /\ scan_pc' = IF ProgressRaises THEN "raised" ELSE "scan"
                   /\ scan_error' = IF ProgressRaises THEN "ZeroDivisionError"
                                    ELSE ""
  /\ UNCHANGED <<scanner, calc_ut_raises, gann_angles, scan_ephemeris,
                 symbol_aspects, start_jd, end_jd, step_jd, last_aspects>>

\* scan_planetary_aspects_for_symbol: one iteration of the while loop
SymbolScanStep ==
  /\ scanner = "scan_planetary_aspects_for_symbol"
  /\ scan_pc = "scan"
  /\ current_jd <= end_jd
  /\ LET st == SymbolPairs(scan_ephemeris, symbol_aspects, current_jd,
                           [found |-> found_aspects, last |-> last_aspects])
     IN  /\ found_aspects' = st.found
         /\ last_aspects' = st.last
  /\ current_jd' = current_jd + step_jd
  /\ scan_pc' = IF ProgressRaises THEN "raised" ELSE "scan"
  /\ scan_error' = IF ProgressRaises THEN "ZeroDivisionError" ELSE ""
  /\ UNCHANGED <<scanner, calc_ut_raises, gann_angles, scan_ephemeris,
                 symbol_aspects, start_jd, end_jd, step_jd>>

\* find_gann_aspects: one iteration of the while loop
FindGannStep ==
  /\ scanner = "find_gann_aspects"
  /\ scan_pc = "scan"
  /\ current_jd <= end_jd
  /\ LET st == GannPairs(scan_ephemeris, calc_ut_raises, gann_angles,
                         current_jd,
                         [aborted |-> FALSE, found |-> found_aspects], 1)
     IN  /\ found_aspects' = st.found
         /\ scan_pc' = IF st.aborted THEN "returned" ELSE "scan"
         /\ current_jd' = IF st.aborted THEN current_jd
                          ELSE current_jd + step_jd
  /\ UNCHANGED <<scanner, calc_ut_raises, gann_angles, scan_error,
                 scan_ephemeris, symbol_aspects, start_jd, end_jd, step_jd,
                 last_aspects>>

\* any scanner: the while loop ends, "return found_aspects"
ScanReturn ==
  /\ scan_pc = "scan"
  /\ current_jd > end_jd
  /\ scan_pc' = "returned"
  /\ UNCHANGED <<scanner, calc_ut_raises, gann_angles, scan_error,
                 scan_ephemeris, symbol_aspects, start_jd, end_jd, step_jd,
                 current_jd, found_aspects, last_aspects>>

\* ------------------------------------- AngleMath and AspectMatcher calls
\* custom_gann_aspect_finder.py: self.standard_aspects, in dict order
standard_aspects ==
  <<[name |-> "Conjunction", angle |-> 0],
    [name |-> "Semisquare", angle |-> 45 * AngleScale],
    [name |-> "Sextile", angle |-> 60 * AngleScale],
    [name |-> "Square", angle |-> 90 * AngleScale],
    [name |-> "Trine", angle |-> 120 * AngleScale],
    [name |-> "Opposition", angle |-> 180 * AngleScale]>>

\* custom_gann_aspect_finder.py, get_aspect_type: the standard aspects on
\* the short arc first, then the Gann angles on the long arc
RECURSIVE CustomFirstMatchFrom(_, _, _)
CustomFirstMatchFrom(items, i, arc) ==
  IF i > Len(items) THEN ""
  ELSE IF Abs(arc - items[i].angle) <= CalculatorOrb THEN items[i].name
  ELSE CustomFirstMatchFrom(items, i + 1, arc)

custom_get_aspect_type(standard, gann, short_arc, long_arc) ==
  IF CustomFirstMatchFrom(standard, 1, short_arc) # ""
    THEN CustomFirstMatchFrom(standard, 1, short_arc)
    ELSE CustomFirstMatchFrom(gann, 1, long_arc)

VARIABLES
  math_pc,        \* "idle" | "call" | "returned"
  math_fn,        \* the function called
  arg_lon1,       \* lon1, or the measured angle
  arg_lon2,       \* lon2, or the target angle
  arg_orb,
  arg_aspects,    \* self.aspects (self.standard_aspects of the custom finder)
  arg_gann,       \* self.gann_angles of the custom finder
  math_result

math_vars ==
  <<math_pc, math_fn, arg_lon1, arg_lon2, arg_orb, arg_aspects, arg_gann,
    math_result>>

\* the angles a call is made with: MathGrid points around the circle and
\* the neighbourhoods of the seam and of some targets
MathAngleChoices ==
  {k * (Circle \div MathGrid) : k \in 0..(MathGrid - 1)}
    \cup {1 * AngleScale, 180 * AngleScale, 359 * AngleScale, 3598 * (AngleScale \div 10),
          5 * (AngleScale \div 10), 904 * (AngleScale \div 10),
          744 * (AngleScale \div 10), 2856 * (AngleScale \div 10)}

\* values a caller may pass that are not longitudes of [0, 360): negative,
\* or more than a turn
UnnormalizedChoices ==
  {-350 * AngleScale, -10 * AngleScale, 370 * AngleScale, 400 * AngleScale,
   540 * AngleScale, 725 * AngleScale}

\* lon1 and lon2 of a call: angular_distance takes any number
LongitudeChoices(fn) ==
  IF fn = "angular_distance"
    THEN MathAngleChoices \cup UnnormalizedChoices
    ELSE MathAngleChoices

OrbChoices == {0, AngleScale \div 2, AngleScale, 15 * AngleScale}

\* self.aspects of a calculator: the catalog of __init__, none, or a
\* catalog whose definitions overlap
CatalogChoices ==
  {DefaultAspects, <<>>,
   <<[name |-> "Square", angle |-> 90 * AngleScale],
     [name |-> "Gann90.5", angle |-> 905 * (AngleScale \div 10)]>>,
   <<[name |-> "Gann90.5", angle |-> 905 * (AngleScale \div 10)],
     [name |-> "Square", angle |-> 90 * AngleScale]>>,
   <<[name |-> "Gann74", angle |-> 74 * AngleScale],
     [name |-> "Gann74.5", angle |-> 745 * (AngleScale \div 10)]>>}

\* gann_angles of a custom finder
CustomGannChoices ==
  {<<>>,
   <<[name |-> "Gann286", angle |-> 286 * AngleScale],
     [name |-> "Gann285.5", angle |-> 2855 * (AngleScale \div 10)]>>,
   <<[name |-> "Gann270", angle |-> 270 * AngleScale]>>,
   <<[name |-> "Gann109", angle |-> 109 * AngleScale],
     [name |-> "Gann74", angle |-> 74 * AngleScale]>>}

MathFunctions ==
  {"angular_distance", "is_aspect_within_orb", "get_aspect_type",
   "custom_get_aspect_type"}

MathIdle ==
  /\ math_pc = "idle"
  /\ math_fn = "none"
  /\ arg_lon1 = 0
  /\ arg_lon2 = 0
  /\ arg_orb = 0
  /\ arg_aspects = <<>>
  /\ arg_gann = <<>>
  /\ math_result = None

MathInit ==
  /\ math_pc = "call"
  /\ math_fn \in MathFunctions
  /\ arg_lon1 \in LongitudeChoices(math_fn)
  /\ arg_lon2 \in LongitudeChoices(math_fn)
  /\ arg_orb \in IF math_fn = "is_aspect_within_orb" THEN OrbChoices
                  ELSE {CalculatorOrb}
  /\ arg_aspects \in
       CASE math_fn = "get_aspect_type" -> CatalogChoices
         [] math_fn = "custom_get_aspect_type" -> {standard_aspects}
         [] OTHER -> {<<>>}
  /\ arg_gann \in IF math_fn = "custom_get_aspect_type"
                    THEN CustomGannChoices ELSE {<<>>}
  /\ math_result = None

CallAngularDistance ==
  /\ math_pc = "call"
  /\ math_fn = "angular_distance"
  /\ math_result' = angular_distance(arg_lon1, arg_lon2)
  /\ math_pc' = "returned"
  /\ UNCHANGED <<math_fn, arg_lon1, arg_lon2, arg_orb, arg_aspects, arg_gann>>

CallIsAspectWithinOrb ==
  /\ math_pc = "call"
  /\ math_fn = "is_aspect_within_orb"
  /\ math_result' = is_aspect_within_orb(arg_lon1, arg_lon2, arg_orb)
  /\ math_pc' = "returned"
  /\ UNCHANGED <<math_fn, arg_lon1, arg_lon2, arg_orb, arg_aspects, arg_gann>>

\* get_aspect_type(short_arc, long_arc), called as find_aspects_for_date
\* calls it: with the two arcs of calculate_angle_between_planets
CallGetAspectType ==
  /\ math_pc = "call"
  /\ math_fn = "get_aspect_type"
  /\ math_result' =
       get_aspect_type(arg_aspects,
         calculate_angle_between_planets(arg_lon1, arg_lon2)[1],
         calculate_angle_between_planets(arg_lon1, arg_lon2)[2])
  /\ math_pc' = "returned"
  /\ UNCHANGED <<math_fn, arg_lon1, arg_lon2, arg_orb, arg_aspects, arg_gann>>

CallCustomGetAspectType ==
  /\ math_pc = "call"
  /\ math_fn = "custom_get_aspect_type"
  /\ math_result' =
       custom_get_aspect_type(arg_aspects, arg_gann,
         calculate_angle_between_planets(arg_lon1, arg_lon2)[1],
         calculate_angle_between_planets(arg_lon1, arg_lon2)[2])
  /\ math_pc' = "returned"
  /\ UNCHANGED <<math_fn, arg_lon1, arg_lon2, arg_orb, arg_aspects, arg_gann>>

\* ------------------------------------------------------ pattern_demo.py
priority_patterns == {45, 90, 135, 180, 225, 270, 315, 360}

\* len(str(price)) of a positive price
PriceLen(price) ==
  IF price < 10 THEN 1
  ELSE IF price < 100 THEN 2
  ELSE IF price < 1000 THEN 3
  ELSE IF price < 10000 THEN 4
  ELSE IF price < 100000 THEN 5
  ELSE 6

\* the xxx00 and xx00 patterns: first digits a multiple of 45, then 00
EndsWithTwoZeros(price) ==
  /\ price % 100 = 0
  /\ (price \div 100) % 45 = 0
  /\ price \div 100 > 0

is_bold_pattern(price) ==
  \/ price \in priority_patterns
  \/ PriceLen(price) = 5 /\ EndsWithTwoZeros(price)
  \/ PriceLen(price) = 4 /\ EndsWithTwoZeros(price)
  \/ PriceLen(price) = 3 /\ price % 45 = 0 /\ price > 0

\* the yyxxx and yxxx patterns: last three digits a multiple of 45, first
\* digits not
LastThreeOnly(price) ==
  /\ (price % 1000) % 45 = 0
  /\ price % 1000 > 0
  /\ ((price \div 100) % 45 # 0 \/ price \div 100 = 0)

is_short_term_pattern(price) ==
  \/ PriceLen(price) = 5 /\ LastThreeOnly(price)
  \/ PriceLen(price) = 4 /\ LastThreeOnly(price)

is_regular_45_multiple_KeepsShortTerm(price) ==
  /\ ~(price % 45 # 0 \/ price <= 0)
  /\ price \notin priority_patterns
  /\ ~is_bold_pattern(price)

is_regular_45_multiple(price) ==
  /\ ~(price % 45 # 0 \/ price <= 0)
  /\ price \notin priority_patterns
  /\ ~is_bold_pattern(price)
  /\ ~is_short_term_pattern(price)

VARIABLES
  pattern_pc,      \* "idle" | "long" | "short" | "regular" | "explained"
  price,
  is_long,         \* result of is_bold_pattern(price)
  is_short,        \* result of is_short_term_pattern(price)
  is_regular       \* result of is_regular_45_multiple(price)

pattern_vars == <<pattern_pc, price, is_long, is_short, is_regular>>

PatternsIdle ==
  /\ pattern_pc = "idle"
  /\ price = 0
  /\ is_long = FALSE
  /\ is_short = FALSE
  /\ is_regular = FALSE

\* explain_pattern(price), before its three calls
PatternsInit ==
  /\ pattern_pc = "long"
  /\ price \in 1..MaxPrice
  /\ is_long = FALSE
  /\ is_short = FALSE
  /\ is_regular = FALSE

\* "is_long = is_bold_pattern(price)"
CallIsBoldPattern ==
  /\ pattern_pc = "long"
  /\ is_long' = is_bold_pattern(price)
  /\ pattern_pc' = "short"
  /\ UNCHANGED <<price, is_short, is_regular>>

\* "is_short = is_short_term_pattern(price)"
CallIsShortTermPattern ==
  /\ pattern_pc = "short"
  /\ is_short' = is_short_term_pattern(price)
  /\ pattern_pc' = "regular"
  /\ UNCHANGED <<price, is_long, is_regular>>

\* "is_regular = is_regular_45_multiple(price)"
CallIsRegular45Multiple ==
  /\ pattern_pc = "regular"
  /\ is_regular' = is_regular_45_multiple(price)
  /\ pattern_pc' = "explained"
  /\ UNCHANGED <<price, is_long, is_short>>

\* ------------------------------------------------- duplicate filters
\* calculate_aspects.py binds the name datetime to the module, which has no
\* attribute strptime
DatetimeHasStrptime == DatetimeIsCallable

\* (planet1, planet2, aspect) of remove_duplicate_aspects: the pair as given
OrderedKey(a) == <<a.planet1, a.planet2, a.aspect>>

\* aspects_list.sort(key=lambda x: datetime.strptime(...)) : stable
SortByDatetime(aspects_list) == SortByDate(aspects_list)

\* filtered_aspects[-3:]
LastThree(filtered_aspects) ==
  SubSeq(filtered_aspects,
         IF Len(filtered_aspects) > 3 THEN Len(filtered_aspects) - 2 ELSE 1,
         Len(filtered_aspects))

\* "current_key == recent_key and abs(current_dt - recent_dt) < threshold"
IsRecentDuplicate(current_aspect, recent_aspect, time_threshold_hours) ==
  /\ OrderedKey(current_aspect) = OrderedKey(recent_aspect)
  /\ Abs(current_aspect.date - recent_aspect.date) < time_threshold_hours

\* the loop over the recent aspects stops at the first duplicate: its place
\* in recent, 0 when the loop runs to its end
RECURSIVE FirstDuplicateFrom(_, _, _, _)
FirstDuplicateFrom(recent, i, current_aspect, time_threshold_hours) ==
  IF i > Len(recent) THEN 0
  ELSE IF IsRecentDuplicate(current_aspect, recent[i], time_threshold_hours)
    THEN i
    ELSE FirstDuplicateFrom(recent, i + 1, current_aspect,
                            time_threshold_hours)

\* what the body of "for current_aspect in aspects_list" leaves in
\* filtered_aspects, k being the place of the first duplicate in recent
FilterAfter(filtered_aspects, recent, k, current_aspect) ==
  IF k = 0 THEN Append(filtered_aspects, current_aspect)
  ELSE IF current_aspect.angle_error < recent[k].angle_error
    THEN Append(SelectSeq(filtered_aspects, LAMBDA a : a # recent[k]),
                current_aspect)
    ELSE filtered_aspects

FilterOne(filtered_aspects, current_aspect, time_threshold_hours) ==
  FilterAfter(filtered_aspects, LastThree(filtered_aspects),
              FirstDuplicateFrom(LastThree(filtered_aspects), 1,
                                 current_aspect, time_threshold_hours),
              current_aspect)

RECURSIVE FilterLoop(_, _, _)
FilterLoop(filtered_aspects, aspects_list, time_threshold_hours) ==
  IF aspects_list = <<>> THEN filtered_aspects
  ELSE FilterLoop(FilterOne(filtered_aspects, Head(aspects_list),
                            time_threshold_hours),
                  Tail(aspects_list), time_threshold_hours)

\* [error, value]: the exception raised, or the list returned
remove_duplicate_aspects(aspects_list, time_threshold_hours) ==
  IF aspects_list = <<>> THEN [error |-> "", value |-> <<>>]
  ELSE IF ~DatetimeHasStrptime
    THEN [error |-> "AttributeError", value |-> <<>>]
    ELSE [error |-> "",
          value |-> FilterLoop(<<>>, SortByDatetime(aspects_list),
                               time_threshold_hours)]

VARIABLES
  filter_pc,       \* "idle" | "call" | "returned" | "raised"
  filter_fn,       \* the filter called
  arg_events,      \* the list passed
  arg_threshold,   \* time_threshold_hours
  filter_result    \* the list returned

filter_vars ==
  <<filter_pc, filter_fn, arg_events, arg_threshold, filter_result>>

vars ==
  <<dates_vars, solver_vars, scan_vars, math_vars, filter_vars, pattern_vars>>

FilterFunctions == {"deduplicate_aspects", "remove_duplicate_aspects"}

\* when the events of a list happen (hours): around the 14 days of
\* deduplicate_aspects, around the 24 hours of remove_duplicate_aspects
EventDateChoices(fn) ==
  IF fn = "deduplicate_aspects"
    THEN {0, 13 * HoursPerDay, 14 * HoursPerDay}
    ELSE {0, 12, 24}

\* planet pair and aspect of an event: one pair in both orders, two aspects
EventKeyChoices ==
  {<<"Sun", "Moon", "Conjunction">>, <<"Moon", "Sun", "Conjunction">>,
   <<"Sun", "Moon", "Square">>}

\* how far the recorded angle is from the aspect's own
EventErrorChoices == {3 * (AngleScale \div 10), 5 * (AngleScale \div 10)}

EventChoices(fn) ==
  {[date |-> t, planet1 |-> k[1], planet2 |-> k[2], aspect |-> k[3],
    angle |-> AspectAngle(k[3]) + e, angle_error |-> e] :
     t \in EventDateChoices(fn), k \in EventKeyChoices,
     e \in EventErrorChoices}

EventListChoices(fn) ==
  UNION {[1..n -> EventChoices(fn)] : n \in 0..MaxEvents}

FiltersIdle ==
  /\ filter_pc = "idle"
  /\ filter_fn = "none"
  /\ arg_events = <<>>
  /\ arg_threshold = 0
  /\ filter_result = <<>>

FiltersInit ==
  /\ filter_pc = "call"
  /\ filter_fn \in FilterFunctions
  /\ arg_events \in EventListChoices(filter_fn)
  /\ arg_threshold = IF filter_fn = "remove_duplicate_aspects" THEN 24 ELSE 0
  /\ filter_result = <<>>

CallDeduplicateAspects ==
  /\ filter_pc = "call"
  /\ filter_fn = "deduplicate_aspects"
  /\ filter_result' = deduplicate_aspects(arg_events)
  /\ filter_pc' = "returned"
  /\ UNCHANGED <<filter_fn, arg_events, arg_threshold>>

CallRemoveDuplicateAspects ==
  /\ filter_pc = "call"
  /\ filter_fn = "remove_duplicate_aspects"
  /\ filter_result' = remove_duplicate_aspects(arg_events, arg_threshold).value
  /\ filter_pc' =
       IF remove_duplicate_aspects(arg_events, arg_threshold).error = ""
         THEN "returned" ELSE "raised"
  /\ UNCHANGED <<filter_fn, arg_events, arg_threshold>>

\* ------------------------------------------------------- specifications
\* the variables a specification leaves alone
beside_dates ==
  <<solver_vars, scan_vars, math_vars, filter_vars, pattern_vars>>

beside_solver ==
  <<dates_vars, scan_vars, math_vars, filter_vars, pattern_vars>>

beside_scanners ==
  <<dates_vars, solver_vars, math_vars, filter_vars, pattern_vars>>

beside_math ==
  <<dates_vars, solver_vars, scan_vars, filter_vars, pattern_vars>>

beside_filters ==
  <<dates_vars, solver_vars, scan_vars, math_vars, pattern_vars>>

beside_patterns ==
  <<dates_vars, solver_vars, scan_vars, math_vars, filter_vars>>

\* find_exact_aspect_dates
Init ==
  /\ DatesInit /\ SolverIdle /\ ScannersIdle /\ MathIdle /\ FiltersIdle
  /\ PatternsIdle

Next ==
  \/ ScanStep /\ UNCHANGED beside_dates
  \/ FinishScan /\ UNCHANGED beside_dates

Spec == Init /\ [][Next]_vars

\* find_exact_aspect_time
InitSolver ==
  /\ SolverInit /\ DatesIdle /\ ScannersIdle /\ MathIdle /\ FiltersIdle
  /\ PatternsIdle

NextSolver ==
  \/ SolverIterate /\ UNCHANGED beside_solver
  \/ SolverExhausted /\ UNCHANGED beside_solver

SpecSolver == InitSolver /\ [][NextSolver]_vars

\* a call of find_exact_aspect_time runs on: nothing suspends the loop
SpecSolverFair == SpecSolver /\ WF_vars(NextSolver)

\* scan_for_aspects, scan_planetary_aspects_for_symbol, find_gann_aspects
InitScanners ==
  /\ ScannersInit /\ DatesIdle /\ SolverIdle /\ MathIdle /\ FiltersIdle
  /\ PatternsIdle

NextScanners ==
  \/ ScanForAspectsStep /\ UNCHANGED beside_scanners
  \/ SymbolScanStep /\ UNCHANGED beside_scanners
  \/ FindGannStep /\ UNCHANGED beside_scanners
  \/ ScanReturn /\ UNCHANGED beside_scanners

SpecScanners == InitScanners /\ [][NextScanners]_vars

\* calls of the AngleMath and AspectMatcher functions
InitMath ==
  /\ MathInit /\ DatesIdle /\ SolverIdle /\ ScannersIdle /\ FiltersIdle
  /\ PatternsIdle

NextMath ==
  \/ CallAngularDistance /\ UNCHANGED beside_math
  \/ CallIsAspectWithinOrb /\ UNCHANGED beside_math
  \/ CallGetAspectType /\ UNCHANGED beside_math
  \/ CallCustomGetAspectType /\ UNCHANGED beside_math

SpecMath == InitMath /\ [][NextMath]_vars

\* calls of deduplicate_aspects and remove_duplicate_aspects
InitFilters ==
  /\ FiltersInit /\ DatesIdle /\ SolverIdle /\ ScannersIdle /\ MathIdle
  /\ PatternsIdle

NextFilters ==
  \/ CallDeduplicateAspects /\ UNCHANGED beside_filters
  \/ CallRemoveDuplicateAspects /\ UNCHANGED beside_filters

SpecFilters == InitFilters /\ [][NextFilters]_vars

\* explain_pattern: the three pattern classes of a price
InitPatterns ==
  /\ PatternsInit /\ DatesIdle /\ SolverIdle /\ ScannersIdle /\ MathIdle
  /\ FiltersIdle

NextPatterns ==
  \/ CallIsBoldPattern /\ UNCHANGED beside_patterns
  \/ CallIsShortTermPattern /\ UNCHANGED beside_patterns
  \/ CallIsRegular45Multiple /\ UNCHANGED beside_patterns

SpecPatterns == InitPatterns /\ [][NextPatterns]_vars

\* ----------------------------------------------------------- properties
WindowHours == WindowDays * HoursPerDay

CandidatesOf(k) == SelectSeq(candidates, LAMBDA c : AspectKey(c) = k)

EventsOf(events, k) == SelectSeq(events, LAMBDA e : AspectKey(e) = k)

CandidateKeys == {AspectKey(candidates[i]) : i \in 1..Len(candidates)}

AllWithinWindow(cs) ==
  \A i, j \in 1..Len(cs) : Abs(cs[i].date - cs[j].date) <= WindowHours

MinPrecision(cs) ==
  CHOOSE m \in {AnglePrecision(cs[i]) : i \in 1..Len(cs)} :
    \A i \in 1..Len(cs) : m <= AnglePrecision(cs[i])

\* C1: when all the candidates of a key lie within the 30-day window length
\* of each other, the scan returns exactly one event for the key, and it is a
\* candidate with the smallest angular error |angle - target| among them.
C1_OneEventMinimalError ==
  dates_pc = "done" =>
    \A k \in CandidateKeys :
      AllWithinWindow(CandidatesOf(k)) =>
        /\ Len(EventsOf(returned, k)) = 1
        /\ EventsOf(returned, k)[1] \in SeqRange(CandidatesOf(k))
        /\ AnglePrecision(EventsOf(returned, k)[1])
             = MinPrecision(CandidatesOf(k))

C1_Witness ==
  /\ dates_pc = "done"
  /\ \E k \in CandidateKeys :
       /\ AllWithinWindow(CandidatesOf(k))
       /\ Len(CandidatesOf(k)) >= 3
       /\ AnglePrecision(CandidatesOf(k)[1]) > MinPrecision(CandidatesOf(k))
       /\ AnglePrecision(CandidatesOf(k)[Len(CandidatesOf(k))])
            > MinPrecision(CandidatesOf(k))
       /\ Len(EventsOf(returned, k)) = 1


ConsecutiveGapsWithinWindow(cs) ==
  \A i \in 1..(Len(cs) - 1) : cs[i + 1].date - cs[i].date <= WindowHours

\* the candidates split into two clusters, each within the window length,
\* the second starting more than the window length after the end of the first
TwoClusters(cs) ==
  \E n \in 1..(Len(cs) - 1) :
    /\ AllWithinWindow(SubSeq(cs, 1, n))
    /\ AllWithinWindow(SubSeq(cs, n + 1, Len(cs)))
    /\ cs[n + 1].date - cs[n].date > WindowHours

\* C2: two clusters of candidates of one key, the second starting more than
\* 30 days after the last candidate of the first, commit exactly two events
\* for the key, whatever the angular errors of the two clusters.
C2_TwoClustersTwoEvents ==
  dates_pc = "done" =>
    \A k \in CandidateKeys :
      TwoClusters(CandidatesOf(k)) => Len(EventsOf(exact_aspects, k)) = 2

\* C3: two events are committed for a key only if two consecutive candidates
\* of the key were more than 30 days apart; an unbroken run of candidates
\* yields one committed event.
C3_OneEventPerUnbrokenRun ==
  dates_pc = "done" =>
    \A k \in CandidateKeys :
      ConsecutiveGapsWithinWindow(CandidatesOf(k)) =>
        Len(EventsOf(exact_aspects, k)) = 1

\* C4: at the end of the scan loop the flush appends to the committed list
\* exactly one event per open window, the window's current best, whether or
\* not 30 days have passed since the window was last seen.
C4_FlushCommitsEveryOpenWindow ==
  [][(dates_pc = "scan" /\ dates_pc' = "done") =>
       /\ Len(exact_aspects') = Len(exact_aspects) + Len(aspect_windows)
       /\ SubSeq(exact_aspects', 1, Len(exact_aspects)) = exact_aspects
       /\ \A i \in 1..Len(aspect_windows) :
            exact_aspects'[Len(exact_aspects) + i]
              = aspect_windows[i].best_aspect]_vars

C4_Witness ==
  /\ dates_pc = "done"
  /\ Len(aspect_windows) >= 2
  /\ Len(exact_aspects) > Len(aspect_windows)
  /\ \E i \in 1..Len(aspect_windows) :
       /\ end - aspect_windows[i].last_seen < WindowHours
       /\ aspect_windows[i].best_aspect \in SeqRange(exact_aspects)

IsSortedByDate(events) ==
  \A i, j \in 1..Len(events) : i < j => events[i].date <= events[j].date

\* C6: the list find_exact_aspect_dates returns is non-decreasing in
\* instant, whatever the order in which the windows were committed.
C6_ReturnedSortedByInstant ==
  dates_pc = "done" => IsSortedByDate(returned)

C6_Witness ==
  /\ dates_pc = "done"
  /\ Len(returned) >= 3
  /\ ~IsSortedByDate(exact_aspects)
  /\ IsSortedByDate(returned)


\* the instants of the search interval where the error function is zero
\* (below the solver's tolerance)
ZeroInstants ==
  {t \in search_start..(search_start + search_days) :
     angle_difference_from_target(ephemeris, planet1_code, planet2_code,
                                  target_angle, t) < SolverTolerance}

\* C7: when the error function has exactly one zero inside the search
\* interval, the solver returns an instant whose error is below 1e-4 degree.
C7_SolverFindsUniqueZero ==
  (/\ solver_pc = "returned"
   /\ Cardinality(ZeroInstants) = 1
   /\ \A z \in ZeroInstants :
        search_start < z /\ z < search_start + search_days)
    => /\ solver_result # None
       /\ angle_difference_from_target(ephemeris, planet1_code, planet2_code,
                                       target_angle, solver_result)
            < SolverTolerance

\* the provider answers at none of the instants of the search interval
ProviderAlwaysUnavailable ==
  \A t \in search_start..(search_start + search_days) :
    \/ calculate_position(ephemeris, planet1_code, t) = None
    \/ calculate_position(ephemeris, planet2_code, t) = None

\* C8: when the provider is unavailable at every instant the solver probes,
\* find_exact_aspect_time reports the candidate unresolved: it returns no
\* instant.
C8_UnavailableIsUnresolved ==
  (solver_pc = "returned" /\ ProviderAlwaysUnavailable)
    => solver_result = None


\* the instants scan_for_aspects is asked to evaluate
ScanGrid ==
  {t \in start_jd..end_jd : (t - start_jd) % step_jd = 0}

\* the error of a pair against a target, measured again at an instant
ReMeasuredError(planet1, planet2, target, jd) ==
  Abs(angular_distance(calculate_position(scan_ephemeris, planet1, jd),
                       calculate_position(scan_ephemeris, planet2, jd))
        - target)

\* a coarse hit of scan_for_aspects: the pair is within orb at a grid instant
CoarseHit(i, a, t) ==
  /\ calculate_position(scan_ephemeris, planet_pairs[i][1], t) # None
  /\ calculate_position(scan_ephemeris, planet_pairs[i][2], t) # None
  /\ is_aspect_within_orb(
       angular_distance(
         calculate_position(scan_ephemeris, planet_pairs[i][1], t),
         calculate_position(scan_ephemeris, planet_pairs[i][2], t)),
       ScanCatalog[a].angle, ScanCatalog[a].orb)

Refined(i, a, t) ==
  find_exact_aspect_time(scan_ephemeris, planet_pairs[i][1],
                         planet_pairs[i][2], ScanCatalog[a].angle,
                         t - TicksPerDay \div 2, TicksPerDay)

\* C9: once scan_for_aspects has left its loop, the refined candidate of a
\* coarse hit is among the events if and only if the error measured again
\* at the solver's instant is at most 0.01 degree.
C9_PostCheckIsTheGate ==
  (scanner = "scan_for_aspects" /\ scan_pc # "scan") =>
    \A t \in ScanGrid, i \in 1..Len(planet_pairs), a \in 1..Len(ScanCatalog) :
      CoarseHit(i, a, t) =>
        ((/\ calculate_position(scan_ephemeris, planet_pairs[i][1],
                                Refined(i, a, t)) # None
          /\ calculate_position(scan_ephemeris, planet_pairs[i][2],
                                Refined(i, a, t)) # None
          /\ ReMeasuredError(planet_pairs[i][1], planet_pairs[i][2],
                             ScanCatalog[a].angle, Refined(i, a, t))
               <= PostCheckTolerance)
         <=> \E n \in 1..Len(found_aspects) :
               /\ found_aspects[n].planet1 = planet_pairs[i][1]
               /\ found_aspects[n].planet2 = planet_pairs[i][2]
               /\ found_aspects[n].aspect = ScanCatalog[a].name
               /\ found_aspects[n].exact_jd = Refined(i, a, t))

\* C10: no exception propagates out of a scan entry point: every call with
\* start <= end, a zero-length interval included, returns an event list.
C10_NoExceptionPropagates ==
  (start_jd <= end_jd) => scan_pc # "raised"

\* C11: with no active planet, with a single planet or with an empty aspect
\* catalog, find_exact_aspect_dates finds no candidate, opens no window,
\* commits nothing and returns the empty list.
C11_NothingToScanReturnsEmpty ==
  (Len(planets) <= 1 \/ aspects = <<>>) =>
    /\ candidates = <<>>
    /\ aspect_windows = <<>>
    /\ exact_aspects = <<>>
    /\ returned = <<>>

C11_Witness ==
  /\ dates_pc = "done"
  /\ end = MaxScanHours
  /\ current_date > end
  /\ planets = luminaries
  /\ aspects = <<>>
  /\ returned = <<>>

\* both planets of the pair i are available at t and their separation is
\* within orb of one of the targets of find_gann_aspects
GannHit(i, t) ==
  /\ calculate_position(scan_ephemeris, planet_pairs[i][1], t) # None
  /\ calculate_position(scan_ephemeris, planet_pairs[i][2], t) # None
  /\ is_aspect_within_any(
       angular_distance(
         calculate_position(scan_ephemeris, planet_pairs[i][1], t),
         calculate_position(scan_ephemeris, planet_pairs[i][2], t)),
       gann_angles, GannOrb)

\* both planets of the pair i are available at t and within orb of the
\* aspect a of the catalog of scan_planetary_aspects_for_symbol
SymbolHit(i, a, t) ==
  /\ calculate_position(scan_ephemeris, planet_pairs[i][1], t) # None
  /\ calculate_position(scan_ephemeris, planet_pairs[i][2], t) # None
  /\ SymbolAngleDiff(
       calculate_position(scan_ephemeris, planet_pairs[i][1], t),
       calculate_position(scan_ephemeris, planet_pairs[i][2], t),
       symbol_aspects[a].angle) <= symbol_aspects[a].orb

\* an event of the pair i at the instant t is among the events
EventAt(i, t) ==
  \E n \in 1..Len(found_aspects) :
    /\ found_aspects[n].planet1 = planet_pairs[i][1]
    /\ found_aspects[n].planet2 = planet_pairs[i][2]
    /\ found_aspects[n].exact_jd = t

GannScanSkipsOnlyUnavailable ==
  (scanner = "find_gann_aspects" /\ scan_pc = "returned") =>
    /\ current_jd > end_jd
    /\ \A t \in ScanGrid, i \in 1..Len(planet_pairs) :
         GannHit(i, t) => EventAt(i, t)

SymbolScanSkipsOnlyUnavailable ==
  (scanner = "scan_planetary_aspects_for_symbol" /\ scan_pc = "returned") =>
    /\ current_jd > end_jd
    /\ \A t \in ScanGrid, i \in 1..Len(planet_pairs),
          a \in 1..Len(symbol_aspects) :
         (/\ SymbolHit(i, a, t)
          /\ \A u \in ScanGrid :
               (t - TicksPerDay < u /\ u < t) => ~SymbolHit(i, a, u))
           => \E n \in 1..Len(found_aspects) :
                /\ found_aspects[n].planet1 = planet_pairs[i][1]
                /\ found_aspects[n].planet2 = planet_pairs[i][2]
                /\ found_aspects[n].aspect = symbol_aspects[a].name
                /\ found_aspects[n].exact_jd = t

AspectScanSkipsOnlyUnavailable ==
  (scanner = "scan_for_aspects" /\ scan_pc # "scan") =>
    \A t \in ScanGrid, i \in 1..Len(planet_pairs), a \in 1..Len(ScanCatalog) :
      (/\ CoarseHit(i, a, t)
       /\ calculate_position(scan_ephemeris, planet_pairs[i][1],
                             Refined(i, a, t)) # None
       /\ calculate_position(scan_ephemeris, planet_pairs[i][2],
                             Refined(i, a, t)) # None
       /\ ReMeasuredError(planet_pairs[i][1], planet_pairs[i][2],
                          ScanCatalog[a].angle, Refined(i, a, t))
            <= PostCheckTolerance)
        => EventAt(i, Refined(i, a, t))

\* C12: a position the provider cannot give (None returned, or an exception
\* raised) makes a scanner skip the pairs of that planet at that instant and
\* nothing else: the scan runs to the end of its interval and the events of
\* every other instant and pair are in the list it returns.
C12_UnavailableBodySkipsOnlyItsPairs ==
  /\ GannScanSkipsOnlyUnavailable
  /\ SymbolScanSkipsOnlyUnavailable
  /\ AspectScanSkipsOnlyUnavailable

\* a value of [0, 360)
IsLongitude(lon) == 0 <= lon /\ lon < Circle

\* C13: for longitudes in [0, 360), angular_distance is symmetric, its
\* result lies in [0, 180], angular_distance(1, 359) = 2 and
\* angular_distance(0, 180) = 180.
C13_AngularDistanceSymmetricBounded ==
  (/\ math_pc = "returned" /\ math_fn = "angular_distance"
   /\ IsLongitude(arg_lon1) /\ IsLongitude(arg_lon2)) =>
    /\ math_result = angular_distance(arg_lon2, arg_lon1)
    /\ 0 <= math_result /\ math_result <= HalfCircle
    /\ (arg_lon1 = 1 * AngleScale /\ arg_lon2 = 359 * AngleScale)
         => math_result = 2 * AngleScale
    /\ (arg_lon1 = 0 /\ arg_lon2 = HalfCircle) => math_result = HalfCircle

C13_Witness ==
  /\ math_pc = "returned"
  /\ math_fn = "angular_distance"
  /\ arg_lon1 = 1 * AngleScale
  /\ arg_lon2 = 359 * AngleScale
  /\ math_result = 2 * AngleScale

\* min(|measured - target|, 360 - |measured - target|)
CircularDistance(measured, target) ==
  Min2(Abs(measured - target), Circle - Abs(measured - target))

\* C14: for angles in [0, 360) and an orb >= 0, is_aspect_within_orb is
\* true exactly when the circular distance between the measured and the
\* target angle is at most the orb, across the 0/360 seam too:
\* is_aspect_within_orb(359.8, 0, 0.5) is true.
C14_WithinOrbIsCircularDistance ==
  (math_pc = "returned" /\ math_fn = "is_aspect_within_orb") =>
    /\ math_result = (CircularDistance(arg_lon1, arg_lon2) <= arg_orb)
    /\ (/\ arg_lon1 = 3598 * (AngleScale \div 10)
        /\ arg_lon2 = 0
        /\ arg_orb = AngleScale \div 2) => math_result = TRUE

C14_Witness ==
  /\ math_pc = "returned"
  /\ math_fn = "is_aspect_within_orb"
  /\ arg_lon1 = 3598 * (AngleScale \div 10)
  /\ arg_lon2 = 0
  /\ arg_orb = AngleScale \div 2
  /\ math_result = TRUE

\* the arcs a call of get_aspect_type is made with
ArgShortArc == calculate_angle_between_planets(arg_lon1, arg_lon2)[1]

ArgLongArc == calculate_angle_between_planets(arg_lon1, arg_lon2)[2]

\* the definitions of the catalog of the call whose orb test passes, by
\* their place in catalog order (self.aspects: for the custom finder the
\* standard aspects, then the Gann angles)
PassingPlaces ==
  IF math_fn = "get_aspect_type"
    THEN {i \in 1..Len(arg_aspects) :
            AspectTestPasses(arg_aspects[i], ArgShortArc, ArgLongArc)}
    ELSE {i \in 1..Len(arg_aspects) :
            Abs(ArgShortArc - arg_aspects[i].angle) <= CalculatorOrb}
           \cup {Len(arg_aspects) + i : i \in
                   {j \in 1..Len(arg_gann) :
                      Abs(ArgLongArc - arg_gann[j].angle) <= CalculatorOrb}}

FirstPassingName ==
  LET first == CHOOSE i \in PassingPlaces : \A j \in PassingPlaces : i <= j
  IN  (arg_aspects \o arg_gann)[first].name

\* C15: get_aspect_type returns the first definition, in catalog order,
\* whose orb test passes, also when a later one is closer to the measured
\* angle, and "" when none passes; the call changes nothing of the
\* calculator.
C15_FirstMatchInCatalogOrder ==
  [][(/\ math_pc = "call"
      /\ math_pc' = "returned"
      /\ math_fn \in {"get_aspect_type", "custom_get_aspect_type"})
       => /\ math_result' = IF PassingPlaces = {} THEN ""
                            ELSE FirstPassingName
          /\ arg_aspects' = arg_aspects
          /\ arg_gann' = arg_gann]_vars

\* two definitions pass, the second is the closer one, the first is returned
C15_Witness ==
  /\ math_pc = "returned"
  /\ math_fn = "get_aspect_type"
  /\ Len(arg_aspects) = 2
  /\ PassingPlaces = {1, 2}
  /\ Abs(ArgShortArc - arg_aspects[2].angle)
       < Abs(ArgShortArc - arg_aspects[1].angle)
  /\ arg_aspects[1].name # "Gann74"
  /\ math_result = arg_aspects[1].name

\* C16: a candidate that arrives for a key with an open window, within the
\* window length of the window's last_seen, sets last_seen to its instant,
\* whether it becomes the best of the window or is discarded.
C16_LastSeenFollowsEveryCandidate ==
  [][\A n \in (Len(candidates) + 1)..Len(candidates') :
       LET i == WindowIndex(aspect_windows, AspectKey(candidates'[n]))
       IN  (/\ i # 0
            /\ candidates'[n].date - aspect_windows[i].last_seen
                 <= WindowHours)
             => aspect_windows'[i].last_seen = candidates'[n].date]_vars

\* C17: the best of an open window changes only for a candidate of strictly
\* smaller angular error (or when the window has ended and its best is
\* committed); a candidate as precise as the best, or less, leaves the best
\* as it is, so that the earliest of equally precise candidates is the one
\* the window commits.
C17_BestReplacedOnlyByStrictlySmaller ==
  [][/\ \A i \in 1..Len(aspect_windows) :
          aspect_windows'[i].best_aspect # aspect_windows[i].best_aspect
            => \/ AnglePrecision(aspect_windows'[i].best_aspect)
                    < aspect_windows[i].best_precision
               \/ /\ WindowEnded(current_date, aspect_windows[i])
                  /\ aspect_windows[i].best_aspect
                       \in {exact_aspects'[m] :
                              m \in (Len(exact_aspects) + 1)
                                      ..Len(exact_aspects')}
     /\ \A n \in (Len(candidates) + 1)..Len(candidates') :
          LET i == WindowIndex(aspect_windows, AspectKey(candidates'[n]))
          IN  (/\ i # 0
               /\ AnglePrecision(candidates'[n])
                    >= aspect_windows[i].best_precision
               /\ ~WindowEnded(current_date, aspect_windows[i]))
                => aspect_windows'[i] = aspect_windows[i]]_vars

\* a later candidate as precise as the best came within the window; the
\* earlier one is the event committed
C17_Witness ==
  /\ dates_pc = "done"
  /\ \E i \in 1..Len(aspect_windows) :
       \E n \in 1..Len(candidates) :
         /\ AspectKey(candidates[n]) = aspect_windows[i].key
         /\ AnglePrecision(candidates[n]) = aspect_windows[i].best_precision
         /\ candidates[n].date > aspect_windows[i].best_aspect.date
         /\ candidates[n].date - aspect_windows[i].best_aspect.date
              <= WindowHours
         /\ aspect_windows[i].best_aspect \in SeqRange(exact_aspects)
         /\ candidates[n] \notin SeqRange(exact_aspects)

\* C18: find_exact_aspect_time terminates, whatever the error function and
\* whatever the provider answers: it returns after at most 100 passes of the
\* loop, each of which evaluated the error three times: at the left
\* endpoint, at the midpoint and at the right endpoint.
C18_SolverTerminates ==
  <>(/\ solver_pc = "returned"
     /\ Len(mids) <= MaxIterations
     /\ Len(probes) = 3 * Len(mids)
     /\ \A k \in 1..Len(mids) :
          /\ probes[3 * k - 1] = mids[k]
          /\ probes[3 * k - 2] <= mids[k]
          /\ mids[k] <= probes[3 * k])

C18_Witness ==
  /\ solver_pc = "returned"
  /\ Len(mids) = MaxIterations
  /\ ProviderAlwaysUnavailable

\* C19: the interval of find_exact_aspect_time stays within the search
\* interval, start_jd <= left_jd <= right_jd <= start_jd + search_days, and
\* so does the instant returned; with search_days = 1 and start half a day
\* before the coarse hit the result is within half a day of the hit.
C19_IntervalWithinSearchRange ==
  /\ search_start <= left_jd
  /\ left_jd <= right_jd
  /\ right_jd <= search_start + search_days
  /\ solver_pc = "returned" =>
       /\ search_start <= solver_result
       /\ solver_result <= search_start + search_days
       /\ search_days = TicksPerDay =>
            Abs(solver_result - (search_start + TicksPerDay \div 2))
              <= TicksPerDay \div 2

C19_Witness ==
  /\ solver_pc = "returned"
  /\ search_days = TicksPerDay
  /\ Len(mids) >= 3
  /\ search_start < left_jd
  /\ right_jd < search_start + search_days
  /\ solver_result # search_start + TicksPerDay \div 2

\* C20: a pass of the loop that does not return replaces one endpoint by
\* the midpoint and keeps the other: the right endpoint when the error at
\* the left endpoint is strictly smaller than at the right one, the left
\* endpoint otherwise (equal errors included).
C20_OneEndpointReplacedByMidpoint ==
  [][(solver_pc = "search" /\ solver_pc' = "search") =>
       IF angle_difference_from_target(ephemeris, planet1_code, planet2_code,
                                       target_angle, left_jd)
            < angle_difference_from_target(ephemeris, planet1_code,
                                           planet2_code, target_angle,
                                           right_jd)
         THEN /\ right_jd' = Midpoint(left_jd, right_jd)
              /\ left_jd' = left_jd
         ELSE /\ left_jd' = Midpoint(left_jd, right_jd)
              /\ right_jd' = right_jd]_vars

\* the first pass found equal errors at the two endpoints and moved the
\* left one
C20_Witness ==
  /\ solver_pc = "search"
  /\ Len(mids) = 1
  /\ angle_difference_from_target(ephemeris, planet1_code, planet2_code,
                                  target_angle, search_start)
       = angle_difference_from_target(ephemeris, planet1_code, planet2_code,
                                      target_angle,
                                      search_start + search_days)
  /\ left_jd = mids[1]
  /\ right_jd = search_start + search_days

\* the error the solver measures at an instant of the current call
SolverErrorAt(t) ==
  angle_difference_from_target(ephemeris, planet1_code, planet2_code,
                               target_angle, t)

\* C21: when the loop of find_exact_aspect_time runs its 100 passes without
\* the early return, the instant returned is one of the midpoints the
\* search evaluated, and no evaluated midpoint has a smaller error.
C21_CapReturnsBestMidpoint ==
  (solver_pc = "returned" /\ Len(mids) = MaxIterations
     /\ iteration = MaxIterations) =>
    /\ solver_result \in SeqRange(mids)
    /\ \A k \in 1..Len(mids) :
         SolverErrorAt(solver_result) <= SolverErrorAt(mids[k])

\* the first instant of the grid start + k*step that lies beyond the end
FirstBeyond(start_, end_, step_) ==
  IF start_ > end_ THEN start_
  ELSE start_ + (((end_ - start_) \div step_) + 1) * step_

\* find_exact_aspect_dates is on its grid, and has passed the whole of it
\* once its loop has ended
DatesScanOnGrid ==
  dates_pc # "idle" =>
    /\ current_date % step = 0
    /\ current_date <= FirstBeyond(0, end, step)
    /\ dates_pc = "done" => current_date = FirstBeyond(0, end, step)

\* a Swiss Ephemeris scanner is on its grid, and has passed the whole of it
\* once it has stopped (a provider exception ends find_gann_aspects early)
ScannerOnGrid(name) ==
  scanner = name =>
    /\ (current_jd - start_jd) % step_jd = 0
    /\ current_jd <= FirstBeyond(start_jd, end_jd, step_jd)
    /\ (scan_pc # "scan" /\ ~calc_ut_raises)
         => current_jd = FirstBeyond(start_jd, end_jd, step_jd)

\* C22: a scan from start to end with a positive step evaluates exactly the
\* instants start + k*step that are <= end, in increasing order, the end
\* itself included when it is on the grid, and then stops: when the scan of
\* find_exact_aspect_dates, scan_for_aspects or find_gann_aspects has
\* stopped, its instant is the first grid instant beyond the end.
C22_ScanEvaluatesTheGrid ==
  /\ DatesScanOnGrid
  /\ ScannerOnGrid("scan_for_aspects")
  /\ ScannerOnGrid("find_gann_aspects")

\* two events of scan_planetary_aspects_for_symbol with the same aspect_key
SameSymbolKey(m, n) ==
  /\ found_aspects[m].planet1 = found_aspects[n].planet1
  /\ found_aspects[m].planet2 = found_aspects[n].planet2
  /\ found_aspects[m].aspect = found_aspects[n].aspect

\* C23: any two events emitted by scan_planetary_aspects_for_symbol for the
\* same planet pair and aspect are strictly more than 24 hours apart: a hit
\* exactly 24 hours after the last added one is suppressed.
C23_SameKeyEventsMoreThanADayApart ==
  scanner = "scan_planetary_aspects_for_symbol" =>
    \A m, n \in 1..Len(found_aspects) :
      (m < n /\ SameSymbolKey(m, n)) =>
        found_aspects[n].exact_jd - found_aspects[m].exact_jd > TicksPerDay

MinGapHours == min_days_between_aspects * HoursPerDay

\* C24: in the list returned by deduplicate_aspects, whatever the list it is
\* given, any two events of the same unordered planet pair and aspect are at
\* least 14 days apart: a closer event was dropped, or took the place of the
\* earlier one.
C24_KeptEventsTwoWeeksApart ==
  (filter_fn = "deduplicate_aspects" /\ filter_pc = "returned") =>
    \A m, n \in 1..Len(filter_result) :
      (m # n /\ AspectKey(filter_result[m]) = AspectKey(filter_result[n]))
        => Abs(filter_result[m].date - filter_result[n].date) >= MinGapHours

\* a later, more exact event took the place of one 13 days earlier, given
\* with the planets in the other order, and a third event was kept
C24_Witness ==
  /\ filter_fn = "deduplicate_aspects"
  /\ filter_pc = "returned"
  /\ Len(arg_events) = 3
  /\ Len(filter_result) = 2
  /\ \E i, j \in 1..3 :
       /\ AspectKey(arg_events[i]) = AspectKey(arg_events[j])
       /\ arg_events[i].planet1 # arg_events[j].planet1
       /\ arg_events[j].date - arg_events[i].date = 13 * HoursPerDay
       /\ arg_events[j].angle_error < arg_events[i].angle_error
       /\ \E n \in 1..2 : filter_result[n] = arg_events[j]
       /\ \A n \in 1..2 : filter_result[n] # arg_events[i]

\* C25: remove_duplicate_aspects(aspects, time_threshold_hours) returns a
\* list in which no two events of the same (planet1, planet2, aspect) are
\* less than time_threshold_hours apart, and an event it leaves out is the
\* duplicate of a retained event whose angle_error is no larger.
C25_DuplicatesKeepSmallestError ==
  (filter_fn = "remove_duplicate_aspects" /\ filter_pc # "call") =>
    /\ filter_pc = "returned"
    /\ \A m, n \in 1..Len(filter_result) :
         (m # n /\ OrderedKey(filter_result[m]) = OrderedKey(filter_result[n]))
           => Abs(filter_result[m].date - filter_result[n].date)
                >= arg_threshold
    /\ \A i \in 1..Len(arg_events) :
         \E n \in 1..Len(filter_result) :
           \/ filter_result[n] = arg_events[i]
           \/ /\ IsRecentDuplicate(arg_events[i], filter_result[n],
                                   arg_threshold)
              /\ filter_result[n].angle_error <= arg_events[i].angle_error

\* the reference short arc: d = |lon1 - lon2| mod 360, 360 - d if d > 180
ShortArcReference(lon1, lon2) ==
  IF (Abs(lon1 - lon2) % Circle) > HalfCircle
    THEN Circle - (Abs(lon1 - lon2) % Circle)
    ELSE Abs(lon1 - lon2) % Circle

\* C26: for every pair of values, those outside [0, 360) included,
\* angular_distance(lon1, lon2) equals the reference short arc of
\* |lon1 - lon2| mod 360 and lies within [0, 180].
C26_AngularDistanceIsReferenceShortArc ==
  (math_pc = "returned" /\ math_fn = "angular_distance") =>
    /\ math_result = ShortArcReference(arg_lon1, arg_lon2)
    /\ 0 <= math_result /\ math_result <= HalfCircle

\* C27: the final deduplicate_aspects pass of find_exact_aspect_dates removes
\* no event the window stage committed: the events committed for one key are
\* more than 30 days apart, so the list returned holds the same events as
\* the list of committed events.
C27_FinalPassRemovesNothing ==
  dates_pc = "done" =>
    /\ \A m, n \in 1..Len(exact_aspects) :
         (m # n /\ AspectKey(exact_aspects[m]) = AspectKey(exact_aspects[n]))
           => Abs(exact_aspects[m].date - exact_aspects[n].date) > WindowHours
    /\ Len(returned) = Len(exact_aspects)
    /\ \A m \in 1..Len(exact_aspects) :
         \E n \in 1..Len(returned) : returned[n] = exact_aspects[m]

\* two events of one key were committed, and both are returned
C27_Witness ==
  /\ dates_pc = "done"
  /\ \E m, n \in 1..Len(exact_aspects) :
       /\ m # n
       /\ AspectKey(exact_aspects[m]) = AspectKey(exact_aspects[n])
  /\ Len(returned) = Len(exact_aspects)
  /\ Len(returned) >= 3

\* the angle get_aspect_type tests a recorded arc against: 360 - 74 for
\* Gann74, whose test is on the long arc, the aspect's own angle otherwise
TestedAngle(name) ==
  IF name = "Gann74" THEN Circle - AspectAngle(name) ELSE AspectAngle(name)

\* how far the recorded arc of an event is from the angle it was tested
\* against
MatchError(aspect) == Abs(aspect.angle - TestedAngle(aspect.aspect))

\* C28: the window picks its best by the distance between the recorded arc
\* and the angle the matcher tested it against: once a scan instant has been
\* processed, the best of a window is no farther from that angle than the
\* candidate of its key found at that instant, so that for Gann74 the best
\* kept is the candidate whose long arc is closest to 286 degrees.
C28_BestIsClosestToTestedAngle ==
  \A i \in 1..Len(aspect_windows) :
    \A n \in 1..Len(candidates) :
      (/\ AspectKey(candidates[n]) = aspect_windows[i].key
       /\ candidates[n].date = current_date - step)
        => MatchError(aspect_windows[i].best_aspect)
             <= MatchError(candidates[n])

\* gann_angles of a custom finder configured with [109, 74]
Gann109And74 ==
  <<[name |-> "Gann109", angle |-> 109 * AngleScale],
    [name |-> "Gann74", angle |-> 74 * AngleScale]>>

\* C29: for every pair of longitudes in [0, 360) the get_aspect_type of
\* custom_gann_aspect_finder.py, configured with the Gann angles [109, 74]
\* and the same orb, returns what the get_aspect_type of
\* calculate_aspects.py returns with its catalog of Gann109 and Gann74.
C29_MatchersAgree ==
  (/\ math_pc = "returned" /\ math_fn = "custom_get_aspect_type"
   /\ arg_gann = Gann109And74) =>
    math_result =
      get_aspect_type(DefaultAspects,
        calculate_angle_between_planets(arg_lon1, arg_lon2)[1],
        calculate_angle_between_planets(arg_lon1, arg_lon2)[2])

\* how many of the three pattern classes hold of the price
ClassesHolding ==
  (IF is_long THEN 1 ELSE 0) + (IF is_short THEN 1 ELSE 0)
    + (IF is_regular THEN 1 ELSE 0)

\* C30: for every price from 1 to 99999 at most one of is_bold_pattern,
\* is_short_term_pattern and is_regular_45_multiple is true, and for every
\* positive multiple of 45 exactly one of them is.
C30_PatternClassesPartition ==
  pattern_pc = "explained" =>
    /\ ClassesHolding <= 1
    /\ price % 45 = 0 => ClassesHolding = 1

\* a multiple of 45 whose last three digits alone make it a short-term
\* pattern: it is short-term, and not regular
C30_Witness ==
  /\ pattern_pc = "explained"
  /\ price = 18135
  /\ is_short
  /\ ~is_long
  /\ ~is_regular

====
